---- MODULE Spec2Model ----
(***************************************************************************)
(* Model of salaries.py: the schema parser (parse_sql_schema), the data    *)
(* cleaner (clean_data) and the load pipeline (load_csv_to_postgres).      *)
(*                                                                         *)
(* Text is a sequence of tokens: a token is a maximal run of \w characters *)
(* (a word) or a single other character.  Regular expressions of the       *)
(* source are evaluated on those tokens, position by position, the way     *)
(* re.search / re.finditer scan.                                           *)
(***************************************************************************)
EXTENDS Naturals, Sequences, FiniteSets, TLC

VARIABLES
    decl,        \* the column declarations written in the schema file, in order
    ddl,         \* content of the schema file (sql_schema_path), as tokens
    csv,         \* the DataFrame pd.read_csv yields for csv_path
    pc,          \* position of the run
    schema,      \* result of parse_sql_schema
    clean_df,    \* result of clean_data
    table_name,  \* name used in the COPY command
    error,       \* exception raised by the failing step, "" when none
    db0,         \* committed database state before the run
    db,          \* committed database state
    txn          \* uncommitted changes of the connection's open transaction

vars == <<decl, ddl, csv, pc, schema, clean_df, table_name, error, db0, db, txn>>

----------------------------------------------------------------------------
(* Bounds *)

MaxCols == 2
MaxRows == 2

----------------------------------------------------------------------------
(* Tokens and str.upper *)

Punct == {" ", "\n", "(", ")", ",", ";", "--"}

IsSpace(t) == t \in {" ", "\n"}

IsWord(t) == t \notin Punct

\* str.upper() / re.IGNORECASE on the words that occur in the inputs
upper(t) ==
    CASE t = "create" -> "CREATE"
      [] t = "table"  -> "TABLE"
      [] t = "int"    -> "INT"
      [] t = "text"   -> "TEXT"
      [] t = "decimal" -> "DECIMAL"
      [] OTHER        -> t

RECURSIVE SkipSpaces(_, _)
\* \s* and \s+ : index of the first token at or after i that is not whitespace
SkipSpaces(s, i) ==
    IF i <= Len(s) /\ IsSpace(s[i]) THEN SkipSpaces(s, i + 1) ELSE i

----------------------------------------------------------------------------
(* table_pattern = r"CREATE TABLE (\w+)\s*\((.*?)\);"  DOTALL | IGNORECASE *)

RECURSIVE FirstClose(_, _)
\* (.*?)\); : the first j >= i with s[j] = ")" and s[j+1] = ";", 0 when none
FirstClose(s, j) ==
    IF j + 1 > Len(s) THEN 0
    ELSE IF s[j] = ")" /\ s[j + 1] = ";" THEN j
    ELSE FirstClose(s, j + 1)

\* The keyword part "CREATE TABLE (\w+)" anchored at i
create_table_at(s, i) ==
    /\ i + 4 <= Len(s)
    /\ upper(s[i]) = "CREATE"
    /\ s[i + 1] = " "
    /\ upper(s[i + 2]) = "TABLE"
    /\ s[i + 3] = " "
    /\ IsWord(s[i + 4])

\* table_pattern anchored at i
table_pattern_at(s, i) ==
    LET open == SkipSpaces(s, i + 5)
    IN  /\ create_table_at(s, i)
        /\ open <= Len(s)
        /\ s[open] = "("
        /\ FirstClose(s, open + 1) # 0

RECURSIVE table_pattern_search(_, _)
\* table_pattern.search(sql_content): leftmost match, groups 1 and 2
table_pattern_search(s, i) ==
    IF i > Len(s) THEN [found |-> FALSE, name |-> "", columns_str |-> <<>>]
    ELSE IF table_pattern_at(s, i)
         THEN LET open == SkipSpaces(s, i + 5)
              IN  [found |-> TRUE,
                   name |-> s[i + 4],
                   columns_str |-> SubSeq(s, open + 1, FirstClose(s, open + 1) - 1)]
         ELSE table_pattern_search(s, i + 1)

----------------------------------------------------------------------------
(* column_pattern = r"^\s*(\w+)\s+([\w\(\)]+)"  MULTILINE | IGNORECASE     *)

\* ^ under re.MULTILINE
LineStart(s, p) == p = 1 \/ s[p - 1] = "\n"

IsTypeChar(t) == IsWord(t) \/ t \in {"(", ")"}

RECURSIVE RunEnd(_, _)
\* [\w\(\)]+ : index of the last token of the run that starts at r
RunEnd(s, r) ==
    IF r + 1 <= Len(s) /\ IsTypeChar(s[r + 1]) THEN RunEnd(s, r + 1) ELSE r

RECURSIVE Join(_)
\* the matched text of a run of tokens, upper-cased
Join(ts) == IF ts = <<>> THEN "" ELSE upper(Head(ts)) \o Join(Tail(ts))


\* column_pattern anchored at p
column_pattern_at(s, p) ==
    LET q == SkipSpaces(s, p)
        r == SkipSpaces(s, q + 1)
    IN  /\ LineStart(s, p)
        /\ q + 1 <= Len(s)
        /\ IsWord(s[q])
        /\ IsSpace(s[q + 1])
        /\ r <= Len(s)
        /\ IsTypeChar(s[r])

RECURSIVE column_pattern_next(_, _)
\* start of the next match of column_pattern at or after pos, 0 when none
column_pattern_next(s, pos) ==
    IF pos > Len(s) THEN 0
    ELSE IF column_pattern_at(s, pos) THEN pos
    ELSE column_pattern_next(s, pos + 1)

\* col_name = col_match.group(1).strip()
col_name(s, p) == s[SkipSpaces(s, p)]

\* col_type = col_match.group(2).split(' ')[0].upper()
col_type(s, p) ==
    LET r == SkipSpaces(s, SkipSpaces(s, p) + 1)
    IN  Join(SubSeq(s, r, RunEnd(s, r)))

\* col_match.end()
col_end(s, p) == RunEnd(s, SkipSpaces(s, SkipSpaces(s, p) + 1)) + 1

\* schema[col_name] = col_type on an OrderedDict: a new key is appended, an
\* existing key keeps its position and takes the new value
OrderedDictSet(d, k, v) ==
    IF \E i \in 1..Len(d) : d[i].name = k
    THEN [i \in 1..Len(d) |-> IF d[i].name = k THEN [name |-> k, type |-> v] ELSE d[i]]
    ELSE Append(d, [name |-> k, type |-> v])

RECURSIVE finditer(_, _, _)
\* for col_match in column_pattern.finditer(columns_str): schema[...] = ...
finditer(s, pos, d) ==
    LET p == column_pattern_next(s, pos)
    IN  IF p = 0 THEN d
        ELSE finditer(s, col_end(s, p), OrderedDictSet(d, col_name(s, p), col_type(s, p)))

parse_sql_schema(sql_content) ==
    LET match == table_pattern_search(sql_content, 1)
    IN  IF ~match.found
        THEN [ok |-> FALSE, error |-> "ValueError", schema |-> <<>>]
        ELSE [ok |-> TRUE, error |-> "", schema |-> finditer(match.columns_str, 1, <<>>)]

----------------------------------------------------------------------------
(* DataFrames.  A frame has its column labels in order and its rows in     *)
(* index order; a row maps a column label to a cell.  A cell is a pair     *)
(* <<kind, text>>: "str" a Python string, "num" a number, "bool" a         *)
(* boolean, "date" a timestamp, "none" Python None, "nan" float NaN,       *)
(* "nat" pandas NaT.                                                       *)

None == <<"none", "">>
NaN  == <<"nan", "">>
NaT  == <<"nat", "">>

Range(f) == {f[i] : i \in DOMAIN f}

\* df.notnull() on one cell
notnull(cell) == cell[1] \notin {"none", "nan", "nat"}

\* strings pd.to_numeric parses
NumericStrings == {"42", "0"}

\* strings pd.to_datetime parses
DateStrings == {"2020-01-31"}

\* df.replace(["Not Provided", ""], None, inplace=True) on one cell
replace(cell) ==
    IF cell \in {<<"str", "Not Provided">>, <<"str", "">>} THEN None ELSE cell

\* pd.to_numeric(series, errors='ignore'): an unparseable cell is left as it is
to_numeric_ignore(cell) ==
    CASE cell[1] = "str" /\ cell[2] \in NumericStrings -> <<"num", cell[2]>>
      [] OTHER -> cell

\* pd.to_numeric(series, errors='coerce') on one cell
to_numeric(cell) ==
    CASE cell[1] = "num" -> cell
      [] cell[1] = "str" /\ cell[2] \in NumericStrings -> <<"num", cell[2]>>
      [] OTHER -> NaN

\* series.astype(bool) on one cell: Python truthiness, NaN is truthy
astype_bool(cell) ==
    CASE cell[1] = "none" -> <<"bool", "False">>
      [] cell[1] = "str" /\ cell[2] = "" -> <<"bool", "False">>
      [] cell[1] = "num" /\ cell[2] = "0" -> <<"bool", "False">>
      [] OTHER -> <<"bool", "True">>

\* pd.to_datetime(series, errors='coerce') on one cell
to_datetime(cell) ==
    CASE cell[1] = "date" -> cell
      [] cell[1] = "str" /\ cell[2] \in DateStrings -> <<"date", cell[2]>>
      [] OTHER -> NaT

\* series.astype(str) on one cell: str(value), also of None and NaN
astype_str(cell) ==
    CASE cell[1] = "none" -> <<"str", "None">>
      [] cell[1] = "nan"  -> <<"str", "nan">>
      [] cell[1] = "nat"  -> <<"str", "NaT">>
      [] OTHER -> <<"str", cell[2]>>

\* the branch of the if/elif chain that dtype selects
branch(dtype) ==
    CASE dtype \in {"INT", "INTEGER", "BIGINT"}    -> "INTEGER"
      [] dtype \in {"FLOAT", "NUMERIC", "DECIMAL"} -> "FLOATING"
      [] dtype = "BOOLEAN"                         -> "BOOLEAN"
      [] dtype = "DATE"                            -> "DATE"
      [] dtype = "TEXT"                            -> "TEXT"
      [] OTHER                                     -> "PASSTHROUGH"

\* the conversion a branch applies to one cell of the column
convert(dtype, cell) ==
    CASE branch(dtype) = "INTEGER"  -> to_numeric(cell)
      [] branch(dtype) = "FLOATING" -> to_numeric(cell)
      [] branch(dtype) = "BOOLEAN"  -> astype_bool(cell)
      [] branch(dtype) = "DATE"     -> to_datetime(cell)
      [] branch(dtype) = "TEXT"     -> astype_str(cell)
      [] OTHER                      -> cell

\* df[col] = f(df[col])
SetColumn(rows, col, dtype) ==
    [r \in 1..Len(rows) |-> [rows[r] EXCEPT ![col] = convert(dtype, @)]]

RECURSIVE type_conversions(_, _, _)
\* for col, dtype in schema.items(): ...
type_conversions(rows, sch, i) ==
    IF i > Len(sch) THEN rows
    ELSE type_conversions(SetColumn(rows, sch[i].name, sch[i].type), sch, i + 1)

\* schema.keys()
keys(sch) == [i \in 1..Len(sch) |-> sch[i].name]

\* df[schema.keys()].copy()
project(df, sch) ==
    [columns |-> keys(sch),
     rows |-> [r \in 1..Len(df.rows) |-> [c \in Range(keys(sch)) |-> df.rows[r][c]]]]

\* df.replace([...], None, inplace=True)
replace_all(rows) ==
    [r \in 1..Len(rows) |-> [c \in DOMAIN rows[r] |-> replace(rows[r][c])]]

\* df.dropna(): the rows with a null cell are dropped
where_notnull_dropna(rows) ==
    SelectSeq(rows, LAMBDA row : \A c \in DOMAIN row : notnull(row[c]))

\* df.where(df.notnull(), None)
where_notnull(rows) ==
    [r \in 1..Len(rows) |->
        [c \in DOMAIN rows[r] |-> IF notnull(rows[r][c]) THEN rows[r][c] ELSE None]]

NoFrame == [columns |-> <<>>, rows |-> <<>>]

\* df.reindex(columns=schema.keys()): a missing column is filled with NaN
clean_data_reindex(df, sch) ==
    [ok |-> TRUE, error |-> "",
     df |-> [columns |-> keys(sch),
             rows |-> where_notnull(
                         type_conversions(
                             replace_all(
                                 [r \in 1..Len(df.rows) |->
                                     [c \in Range(keys(sch)) |->
                                         IF c \in Range(df.columns)
                                         THEN df.rows[r][c] ELSE NaN]]),
                             sch, 1))]]

clean_data(df, sch) ==
    IF \E i \in 1..Len(sch) : sch[i].name \notin Range(df.columns)
    THEN [ok |-> FALSE, error |-> "KeyError", df |-> NoFrame]
    ELSE [ok |-> TRUE, error |-> "",
          df |-> [columns |-> keys(sch),
                  rows |-> where_notnull(
                              type_conversions(
                                  replace_all(project(df, sch).rows), sch, 1))]]

----------------------------------------------------------------------------
(* The schema file.  Its text is the rendering of a list of column         *)
(* declarations: a header (plain, lower case, preceded by a comment line   *)
(* that mentions CREATE TABLE, or with IF NOT EXISTS), then the columns    *)
(* one per line or all on one line, then ");".                             *)

ColNames == {"id", "name"}

NoParams == <<>>

\* declared types: a keyword and its parenthesized parameters
TypeForms ==
    {[keyword |-> k, params |-> NoParams] :
        k \in {"INT", "int", "INTEGER", "BIGINT", "FLOAT", "NUMERIC", "DECIMAL",
               "BOOLEAN", "DATE", "TEXT", "text", "VARCHAR"}}
    \cup {[keyword |-> "INT",     params |-> <<"(", "11", ")">>],
          [keyword |-> "decimal", params |-> <<"(", "10", ")">>],
          [keyword |-> "NUMERIC", params |-> <<"(", "10", ",", "2", ")">>],
          [keyword |-> "VARCHAR", params |-> <<"(", "255", ")">>]}

\* the declared types of the schema files the pipeline is run on
PipelineForms ==
    {[keyword |-> "INT",     params |-> NoParams],
     [keyword |-> "TEXT",    params |-> NoParams],
     [keyword |-> "decimal", params |-> <<"(", "10", ")">>]}

Headers == {"plain", "lower", "comment", "ifnotexists"}

Layouts == {"lines", "inline"}

DeclLists(forms) ==
    UNION {[1..n -> [name : ColNames, type : forms]] : n \in 1..MaxCols}

RenderHeader(h) ==
    CASE h = "plain" -> <<"CREATE", " ", "TABLE", " ", "emp", " ", "(">>
      [] h = "lower" -> <<"create", " ", "table", " ", "emp", " ", "(">>
      [] h = "comment" ->
            <<"--", " ", "CREATE", " ", "TABLE", " ", "for", " ", "salaries", "\n",
              "CREATE", " ", "TABLE", " ", "emp", " ", "(">>
      [] h = "ifnotexists" ->
            <<"CREATE", " ", "TABLE", " ", "IF", " ", "NOT", " ", "EXISTS", " ",
              "emp", " ", "(">>

RenderColumn(d) == <<d.name, " ", d.type.keyword>> \o d.type.params

RECURSIVE RenderColumns(_, _, _)
RenderColumns(l, ds, i) ==
    IF i > Len(ds) THEN IF l = "lines" THEN <<"\n">> ELSE <<>>
    ELSE (IF l = "lines" THEN <<"\n", " ">> ELSE IF i > 1 THEN <<" ">> ELSE <<>>)
         \o RenderColumn(ds[i])
         \o (IF i < Len(ds) THEN <<",">> ELSE <<>>)
         \o RenderColumns(l, ds, i + 1)

Render(h, l, ds) == RenderHeader(h) \o RenderColumns(l, ds, 1) \o <<")", ";">>

HasDuplicates(ds) == \E i, j \in 1..Len(ds) : i # j /\ ds[i].name = ds[j].name

----------------------------------------------------------------------------
(* The raw datasets *)

RawValues ==
    {<<"str", "">>, <<"str", "Not Provided">>, <<"str", "N/A">>, <<"str", "42">>, NaN}

FrameHeaders == {<<"id">>, <<"name", "id", "extra">>}

CellValues(c) == IF c = "extra" THEN {<<"str", "x">>} ELSE RawValues

RowsOf(cols) ==
    {r \in [Range(cols) -> RawValues \cup {<<"str", "x">>}] :
        \A c \in Range(cols) : r[c] \in CellValues(c)}

FramesOf(cols) ==
    {[columns |-> cols, rows |-> rs] :
        rs \in UNION {[1..n -> RowsOf(cols)] : n \in 0..MaxRows}}

Frames == UNION {FramesOf(cols) : cols \in FrameHeaders}

\* the frames pd.read_csv yields in the runs of the pipeline
PipelineFrames ==
    {[columns |-> <<"id">>,
      rows |-> <<[c \in {"id"} |-> <<"str", "42">>]>>],
     [columns |-> <<"name", "id", "extra">>,
      rows |-> <<[c \in {"name", "id", "extra"} |-> <<"str", "Not Provided">>],
                 [c \in {"name", "id", "extra"} |-> <<"str", "42">>]>>],
     [columns |-> <<"id", "name">>, rows |-> <<>>]}

\* dtype strings of the schemas clean_data is called with
DTypes == {"INT", "FLOAT", "BOOLEAN", "DATE", "TEXT", "VARCHAR"}

\* the other keywords of the integer and floating branches
NumericDTypes == {"INTEGER", "BIGINT", "NUMERIC", "DECIMAL"}

CleanSchemas ==
    {<<[name |-> n, type |-> t]>> : n \in ColNames, t \in DTypes}
    \cup {<<[name |-> "id", type |-> t]>> : t \in NumericDTypes}
    \cup {<<[name |-> "id", type |-> t], [name |-> "name", type |-> u]>> :
            t \in DTypes, u \in DTypes}

----------------------------------------------------------------------------
(* The database *)

NoTables == [t \in {} |-> <<>>]

NoTxn == [table |-> "", rows |-> <<>>]

\* the statement PostgreSQL executes: a leading comment line is skipped
RECURSIVE SkipLine(_, _)
SkipLine(s, i) == IF i > Len(s) \/ s[i] = "\n" THEN i + 1 ELSE SkipLine(s, i + 1)

Statement(s) == IF s[1] = "--" THEN SubSeq(s, SkipLine(s, 1), Len(s)) ELSE s

IfNotExists(s) == Statement(s)[5] = "IF"

CreatedTable(s) == IF IfNotExists(s) THEN Statement(s)[11] ELSE Statement(s)[5]

\* positional rows handed to COPY: the cells in column order
Positional(df) ==
    [r \in 1..Len(df.rows) |-> [i \in 1..Len(df.columns) |-> df.rows[r][df.columns[i]]]]

----------------------------------------------------------------------------
(* parse_sql_schema called on a schema file *)

InitParse ==
    /\ decl \in DeclLists(TypeForms)
    /\ \E h \in Headers, l \in Layouts : ddl = Render(h, l, decl)
    /\ csv = NoFrame
    /\ pc = "parse_call"
    /\ schema = <<>>
    /\ clean_df = NoFrame
    /\ table_name = ""
    /\ error = ""
    /\ db0 = NoTables
    /\ db = NoTables
    /\ txn = NoTxn

ParseCall ==
    /\ pc = "parse_call"
    /\ LET res == parse_sql_schema(ddl)
       IN  /\ schema' = res.schema
           /\ error' = res.error
           /\ pc' = IF res.ok THEN "parse_return" ELSE "parse_raise"
    /\ UNCHANGED <<decl, ddl, csv, clean_df, table_name, db0, db, txn>>

NextParse == ParseCall

SpecParse == InitParse /\ [][NextParse]_vars

----------------------------------------------------------------------------
(* clean_data called on a frame and a schema *)

InitClean ==
    /\ decl = <<>>
    /\ ddl = <<>>
    /\ csv \in Frames
    /\ pc = "clean_call"
    /\ schema \in CleanSchemas
    /\ clean_df = NoFrame
    /\ table_name = ""
    /\ error = ""
    /\ db0 = NoTables
    /\ db = NoTables
    /\ txn = NoTxn

CleanCall ==
    /\ pc = "clean_call"
    /\ LET res == clean_data(csv, schema)
       IN  /\ clean_df' = res.df
           /\ error' = res.error
           /\ pc' = IF res.ok THEN "clean_return" ELSE "clean_raise"
    /\ UNCHANGED <<decl, ddl, csv, schema, table_name, db0, db, txn>>

NextClean == CleanCall

SpecClean == InitClean /\ [][NextClean]_vars

----------------------------------------------------------------------------
(* load_csv_to_postgres: one run of the pipeline, step by step.  A step    *)
(* that raises leaves the "with psycopg2.connect(...)" block, which rolls  *)
(* the open transaction back; RuntimeError is then raised.                 *)

Init ==
    /\ decl \in DeclLists(PipelineForms)
    /\ \E h \in Headers, l \in Layouts : ddl = Render(h, l, decl)
    /\ csv \in PipelineFrames
    /\ pc = "start"
    /\ schema = <<>>
    /\ clean_df = NoFrame
    /\ table_name = ""
    /\ error = ""
    /\ db0 \in {NoTables, [t \in {"emp"} |-> <<>>]}
    /\ db = db0
    /\ txn = NoTxn

\* except Exception as e: raise RuntimeError(...), after the rollback
Raise(e) ==
    /\ pc' = "failed"
    /\ error' = e
    /\ txn' = NoTxn

\* create_postgres_table: cursor.execute(ddl) succeeds, then conn.commit()
create_postgres_table ==
    /\ pc = "start"
    /\ ~HasDuplicates(decl)
    /\ CreatedTable(ddl) \notin DOMAIN db \/ IfNotExists(ddl)
    /\ db' = [t \in DOMAIN db \cup {CreatedTable(ddl)} |->
                IF t \in DOMAIN db THEN db[t] ELSE <<>>]
    /\ pc' = "created"
    /\ UNCHANGED <<decl, ddl, csv, schema, clean_df, table_name, error, db0, txn>>

\* create_postgres_table: cursor.execute(ddl) raises (the table exists, a
\* column is declared twice, the connection is lost, ...)
create_postgres_table_raises ==
    /\ pc = "start"
    /\ Raise("psycopg2.Error")
    /\ UNCHANGED <<decl, ddl, csv, schema, clean_df, table_name, db0, db>>

\* schema = parse_sql_schema(sql_schema_path)
ParseSchema ==
    /\ pc = "created"
    /\ LET res == parse_sql_schema(ddl)
       IN  IF res.ok
           THEN /\ schema' = res.schema
                /\ pc' = "parsed"
                /\ UNCHANGED <<error, txn>>
           ELSE /\ Raise(res.error)
                /\ UNCHANGED schema
    /\ UNCHANGED <<decl, ddl, csv, clean_df, table_name, db0, db>>

\* df = pd.read_csv(csv_path)
read_csv ==
    /\ pc = "parsed"
    /\ pc' = "read"
    /\ UNCHANGED <<decl, ddl, csv, schema, clean_df, table_name, error, db0, db, txn>>

\* pd.read_csv raises (no file, not a CSV file, ...)
read_csv_raises ==
    /\ pc = "parsed"
    /\ Raise("OSError")
    /\ UNCHANGED <<decl, ddl, csv, schema, clean_df, table_name, db0, db>>

\* clean_df = clean_data(df, schema)
CleanData ==
    /\ pc = "read"
    /\ LET res == clean_data(csv, schema)
       IN  IF res.ok
           THEN /\ clean_df' = res.df
                /\ pc' = "cleaned"
                /\ UNCHANGED <<error, txn>>
           ELSE /\ Raise(res.error)
                /\ UNCHANGED clean_df
    /\ UNCHANGED <<decl, ddl, csv, schema, table_name, db0, db>>

RECURSIVE create_table_search(_, _)
\* re.search(r"CREATE TABLE (\w+)", text, re.IGNORECASE): group 1 of the
\* leftmost match, "" when there is none
create_table_search(s, i) ==
    IF i > Len(s) THEN ""
    ELSE IF create_table_at(s, i) THEN s[i + 4]
    ELSE create_table_search(s, i + 1)

\* table_name = re.search(...).group(1)
ExtractTableName ==
    /\ pc = "cleaned"
    /\ IF create_table_search(ddl, 1) # ""
       THEN /\ table_name' = create_table_search(ddl, 1)
            /\ pc' = "named"
            /\ UNCHANGED <<error, txn>>
       ELSE /\ Raise("AttributeError")
            /\ UNCHANGED table_name
    /\ UNCHANGED <<decl, ddl, csv, schema, clean_df, db0, db>>

\* cursor.copy_expert("COPY {table_name} FROM STDIN ...", buffer) succeeds:
\* the table exists and every row has one field per column of the table
copy_expert ==
    /\ pc = "named"
    /\ table_name \in DOMAIN db
    /\ clean_df.rows = <<>> \/ Len(clean_df.columns) = Len(decl)
    /\ txn' = [table |-> table_name, rows |-> Positional(clean_df)]
    /\ pc' = "copied"
    /\ UNCHANGED <<decl, ddl, csv, schema, clean_df, table_name, error, db0, db>>

\* cursor.copy_expert raises (no such table, a row PostgreSQL rejects, ...)
copy_expert_raises ==
    /\ pc = "named"
    /\ Raise("psycopg2.Error")
    /\ UNCHANGED <<decl, ddl, csv, schema, clean_df, table_name, db0, db>>

\* conn.commit() after the copy, then the success message
commit ==
    /\ pc = "copied"
    /\ db' = [db EXCEPT ![txn.table] = @ \o txn.rows]
    /\ txn' = NoTxn
    /\ pc' = "done"
    /\ UNCHANGED <<decl, ddl, csv, schema, clean_df, table_name, error, db0>>

load_csv_to_postgres ==
    \/ create_postgres_table
    \/ create_postgres_table_raises
    \/ ParseSchema
    \/ read_csv
    \/ read_csv_raises
    \/ CleanData
    \/ ExtractTableName
    \/ copy_expert
    \/ copy_expert_raises
    \/ commit

Next == load_csv_to_postgres

Spec == Init /\ [][Next]_vars

----------------------------------------------------------------------------
(* Properties *)

DeclNames == [i \in 1..Len(decl) |-> decl[i].name]

\* the class the specification gives a type keyword
ExpectedClass(k) ==
    CASE k \in {"INT", "INTEGER", "BIGINT"}    -> "INTEGER"
      [] k \in {"FLOAT", "NUMERIC", "DECIMAL"} -> "FLOATING"
      [] k \in {"BOOLEAN", "DATE", "TEXT"}     -> k
      [] OTHER                                 -> "PASSTHROUGH"

Sentinels == {<<"str", "">>, <<"str", "Not Provided">>}

NumericKeywords == {"INT", "INTEGER", "BIGINT", "FLOAT", "NUMERIC", "DECIMAL"}

AllColumnsPresent == \A i \in 1..Len(schema) : schema[i].name \in Range(csv.columns)

\* C1: when the declared column names are distinct, the schema that
\* parse_sql_schema returns lists exactly the declared names, in declaration
\* order, whether the columns are written one per line or on one line.
C1_SchemaOrder ==
    (pc = "parse_return" /\ ~HasDuplicates(decl)) => keys(schema) = DeclNames

\* C2: the branch of clean_data's type chain taken for a column is the class of
\* the declared keyword alone, whatever its case and whatever parenthesized
\* parameters follow it.
C2_Classification ==
    (pc = "parse_return" /\ ~HasDuplicates(decl)) =>
        \A i \in 1..Len(schema) : \A j \in 1..Len(decl) :
            decl[j].name = schema[i].name =>
                branch(schema[i].type) = ExpectedClass(upper(decl[j].type.keyword))

\* C3: a cell whose raw value is "" or "Not Provided" is null in the frame
\* clean_data returns, whatever the type of its column.
C3_SentinelNull ==
    pc = "clean_return" =>
        \A r \in 1..Len(csv.rows) : \A i \in 1..Len(schema) :
            csv.rows[r][schema[i].name] \in Sentinels =>
                ~notnull(clean_df.rows[r][schema[i].name])

\* C4: in a TEXT column a cell that is null after sentinel replacement is
\* null in the output, and any other cell is output as its text.
C4_TextNullStaysNull ==
    pc = "clean_return" =>
        \A r \in 1..Len(csv.rows) : \A i \in 1..Len(schema) :
            schema[i].type = "TEXT" =>
                LET raw == csv.rows[r][schema[i].name]
                    out == clean_df.rows[r][schema[i].name]
                IN  IF raw \in Sentinels \/ ~notnull(raw)
                    THEN ~notnull(out)
                    ELSE out = <<"str", raw[2]>>

\* C5: when a column name is declared more than once, parse_sql_schema raises
\* and returns no schema.
C5_DuplicateRejected ==
    (pc # "parse_call" /\ HasDuplicates(decl)) => (pc = "parse_raise" /\ schema = <<>>)

\* C6: after a run that failed, the committed database state is the state
\* before the run.
C6_NoPartialCommit ==
    pc = "failed" => db = db0

\* C7: clean_data raises KeyError and returns no frame exactly when some
\* column of the schema is absent from the frame's header; extra columns of
\* the frame do not make it fail.
C7_MissingColumn ==
    pc # "clean_call" =>
        /\ (pc = "clean_raise") <=> ~AllColumnsPresent
        /\ pc = "clean_raise" => (error = "KeyError" /\ clean_df = NoFrame)

C7_Witness ==
    /\ pc = "clean_raise"
    /\ csv.columns = <<"id">>
    /\ Len(csv.rows) > 0
    /\ \E i \in 1..Len(schema) : schema[i].name = "name"

\* the output cell is null, a boolean, the text or number of the raw cell, or
\* the text of a null raw cell
DerivedFrom(raw, out) ==
    \/ out = None
    \/ out[1] = "bool"
    \/ notnull(raw) /\ out[2] = raw[2]
    \/ (raw \in Sentinels \/ ~notnull(raw)) /\ out \in {<<"str", "None">>, <<"str", "nan">>}

\* C8: the frame clean_data returns has as many rows as its input, and its
\* i-th row is derived from the i-th input row.
C8_RowsPreserved ==
    pc = "clean_return" =>
        /\ Len(clean_df.rows) = Len(csv.rows)
        /\ \A r \in 1..Len(csv.rows) : \A i \in 1..Len(schema) :
               DerivedFrom(csv.rows[r][schema[i].name], clean_df.rows[r][schema[i].name])

C8_Witness ==
    /\ pc = "clean_return"
    /\ Len(csv.rows) = 2
    /\ \E i \in 1..Len(schema) :
          /\ schema[i].type = "VARCHAR"
          /\ csv.rows[1][schema[i].name] = <<"str", "N/A">>
          /\ csv.rows[2][schema[i].name] = <<"str", "42">>
    /\ \E i \in 1..Len(schema) :
          /\ schema[i].type = "INT"
          /\ csv.rows[1][schema[i].name] = <<"str", "N/A">>

C10_SameTableName ==
    pc \in {"named", "copied", "done"} =>
        table_name = table_pattern_search(ddl, 1).name

====
